---- MODULE Spec2Model ----
(***************************************************************************)
(* Model of chapter/9/tracing/client/main.go: the tracing demo client.     *)
(*                                                                         *)
(*  - convertTraceID / WithCorrelation (the correlation utility), as pure  *)
(*    operators over strings, checked under SpecConv;                      *)
(*  - main / continuouslySendRequests / makeRequest / the shutdown         *)
(*    closures, together with the batch span processor and the exporter    *)
(*    they are wired to, as a state machine checked under Spec / FairSpec. *)
(*                                                                         *)
(* A Go string is a sequence of one-character strings.  A uint64 is a      *)
(* sequence of four 16-bit limbs, most significant first, because the      *)
(* values do not fit the model checker's integers.                         *)
(***************************************************************************)
EXTENDS Integers, Sequences, FiniteSets, TLC

VARIABLES
    \* ---- correlation utility (SpecConv) ----
    cpc,        \* "convert" | "correlate" | "converted" | "correlated" | "off"
    id,         \* argument of convertTraceID
    out,        \* its result
    span,       \* argument of WithCorrelation: [SpanID: bytes, TraceID: bytes]
    fields,     \* the fields WithCorrelation adds: [span_id, trace_id]
    \* ---- request loop (Spec) ----
    pc,         \* position of the main goroutine: "init" | "start" |
                \* "request" | "event" | "end" | "sleep" | "off"
    proc,       \* "running" | "panicking" | "crashing" | "exited" | "off"
    exitCode,   \* process exit code, -1 while running
    deferred,   \* main has deferred the shutdown closure (line 30)
    iter,       \* number of times the loop body was entered
    spans,      \* sequence of spans started by the loop
    queue,      \* batch span processor's queue (indices into spans)
    exported,   \* set of span indices transmitted to the collector
    dropped,    \* set of span indices whose export failed
    handled,    \* number of errors given to otel.Handle
    expClosed,  \* traceExp.Shutdown has run
    shutdownCalls,   \* number of invocations of the closure main defers
    shutdownReturned \* the deferred closure has returned

convVars == <<cpc, id, out, span, fields>>
loopVars == <<pc, proc, exitCode, deferred, iter, spans, queue, exported, dropped, handled,
              expClosed, shutdownCalls, shutdownReturned>>
vars == <<cpc, id, out, span, fields, pc, proc, exitCode, deferred, iter,
          spans, queue,
          exported, dropped, handled, expClosed, shutdownCalls,
          shutdownReturned>>

(***************************************************************************)
(* Bounds                                                                  *)
(***************************************************************************)
MaxLen == 34        \* longest argument given to convertTraceID
MaxIter == 4        \* loop iterations explored

(***************************************************************************)
(* uint64 arithmetic on limbs                                              *)
(***************************************************************************)
LimbBase == 65536
Zero64 == <<0, 0, 0, 0>>

\* n*m + d computed modulo 2^64, with the carry out of the top limb:
\* [val |-> limbs, carry |-> Nat].  m <= 16, d < 16.
MulAdd(n, m, d) ==
    LET t4 == n[4] * m + d
        t3 == n[3] * m + (t4 \div LimbBase)
        t2 == n[2] * m + (t3 \div LimbBase)
        t1 == n[1] * m + (t2 \div LimbBase)
    IN  [val   |-> <<t1 % LimbBase, t2 % LimbBase, t3 % LimbBase, t4 % LimbBase>>,
         carry |-> t1 \div LimbBase]

\* n divided by the small divisor m: [quo |-> limbs, rem |-> 0..m-1].
DivMod(n, m) ==
    LET r1 == n[1] % m
        a2 == r1 * LimbBase + n[2]
        r2 == a2 % m
        a3 == r2 * LimbBase + n[3]
        r3 == a3 % m
        a4 == r3 * LimbBase + n[4]
    IN  [quo |-> <<n[1] \div m, a2 \div m, a3 \div m, a4 \div m>>,
         rem |-> a4 % m]

(***************************************************************************)
(* Characters                                                              *)
(***************************************************************************)
LowerHex == <<"0","1","2","3","4","5","6","7","8","9","a","b","c","d","e","f">>
UpperHex == <<"0","1","2","3","4","5","6","7","8","9","A","B","C","D","E","F">>
DecDigits == <<"0","1","2","3","4","5","6","7","8","9">>

NoDigit == 36

\* strconv.ParseUint's digit value of a byte: 0-9, a-z and A-Z map to 0..35,
\* anything else is a syntax error.  Letters past f are past base 16 and are
\* rejected by the caller's d >= base test; they are all mapped to NoDigit.
digitOf(c) ==
    IF \E i \in 1..16 : LowerHex[i] = c
    THEN (CHOOSE i \in 1..16 : LowerHex[i] = c) - 1
    ELSE IF \E i \in 1..16 : UpperHex[i] = c
    THEN (CHOOSE i \in 1..16 : UpperHex[i] = c) - 1
    ELSE NoDigit

(***************************************************************************)
(* strconv.ParseUint(s, 16, 64)                                            *)
(***************************************************************************)
\* The digit loop, from position i with accumulator n.
RECURSIVE ParseLoop(_, _, _)
ParseLoop(s, i, n) ==
    IF i > Len(s) THEN [ok |-> TRUE, val |-> n]
    ELSE LET d == digitOf(s[i]) IN
         IF d >= 16 THEN [ok |-> FALSE, val |-> Zero64]          \* ErrSyntax
         ELSE IF n[1] >= 4096 THEN [ok |-> FALSE, val |-> Zero64] \* n >= cutoff: ErrRange
         ELSE LET r == MulAdd(n, 16, d) IN
              IF r.carry > 0 THEN [ok |-> FALSE, val |-> Zero64]  \* ErrRange
              ELSE ParseLoop(s, i + 1, r.val)

ParseUint16(s) ==
    IF s = <<>> THEN [ok |-> FALSE, val |-> Zero64]               \* ErrSyntax
    ELSE ParseLoop(s, 1, Zero64)

(***************************************************************************)
(* strconv.FormatUint(v, 10)                                               *)
(***************************************************************************)
RECURSIVE FormatLoop(_, _)
FormatLoop(v, acc) ==
    IF v = Zero64 THEN acc
    ELSE LET qr == DivMod(v, 10) IN
         FormatLoop(qr.quo, <<DecDigits[qr.rem + 1]>> \o acc)

FormatUint10(v) == IF v = Zero64 THEN <<"0">> ELSE FormatLoop(v, <<>>)

(***************************************************************************)
(* convertTraceID                                                          *)
(***************************************************************************)
\* Mutant of SliceFrom16: the slice starts one byte early, id[15:].
SliceFrom15(s) == SubSeq(s, 16, Len(s))

\* Go's id[16:]: the bytes from index 16 (0-based) to the end.
SliceFrom16(s) == SubSeq(s, 17, Len(s))

\* Mutant of convertTraceID: the length guard is off by one, len(id) < 15.
convertTraceID_ShortGuard(s) ==
    IF Len(s) < 15 THEN <<>>
    ELSE LET t == IF Len(s) > 16 THEN SliceFrom16(s) ELSE s
             p == ParseUint16(t)
         IN  IF ~p.ok THEN <<>> ELSE FormatUint10(p.val)

convertTraceID(s) ==
    IF Len(s) < 16 THEN <<>>
    ELSE LET t == IF Len(s) > 16 THEN SliceFrom16(s) ELSE s
             p == ParseUint16(t)
         IN  IF ~p.ok THEN <<>> ELSE FormatUint10(p.val)

(***************************************************************************)
(* SpanID.String() / TraceID.String(): lower-case hex of the bytes         *)
(***************************************************************************)
RECURSIVE HexEncode(_)
HexEncode(bytes) ==
    IF bytes = <<>> THEN <<>>
    ELSE <<LowerHex[(Head(bytes) \div 16) + 1], LowerHex[(Head(bytes) % 16) + 1]>>
         \o HexEncode(Tail(bytes))

WithCorrelation(sp) ==
    [span_id  |-> convertTraceID(HexEncode(sp.SpanID)),
     trace_id |-> convertTraceID(HexEncode(sp.TraceID))]

(***************************************************************************)
(* Arguments explored under SpecConv                                       *)
(***************************************************************************)
SpanIDBytes == 8
TraceIDBytes == 16

FillKinds == {"zero", "eff", "cycle"}
SpecialChars == {"1", "8", "F", "g", "_"}
FillBytes == {0, 90, 255}
SpecialBytes == {1, 128, 171}

FillChar(kind, i) ==
    CASE kind = "zero"  -> "0"
      [] kind = "eff"   -> "f"
      [] kind = "cycle" -> LowerHex[((i * 7) % 16) + 1]

\* The string of length n filled by `kind`, with character c at position p
\* (p = 0: nowhere).
MkId(n, kind, p, c) ==
    [i \in 1..n |-> IF i = p THEN c ELSE FillChar(kind, i)]

Ids ==
    { MkId(n, k, p, c) : n \in 0..MaxLen, k \in FillKinds,
                         p \in 0..MaxLen, c \in SpecialChars }

MkBytes(n, fill, p, b) == [i \in 1..n |-> IF i = p THEN b ELSE fill]

BytesOf(n) ==
    { MkBytes(n, f, p, b) : f \in FillBytes, p \in 0..n, b \in SpecialBytes }

SpanContexts == [SpanID : BytesOf(SpanIDBytes), TraceID : BytesOf(TraceIDBytes)]

NoSpan == [SpanID |-> <<>>, TraceID |-> <<>>]
NoFields == [span_id |-> <<>>, trace_id |-> <<>>]

(***************************************************************************)
(* Request loop state left idle under SpecConv, and the converse           *)
(***************************************************************************)
LoopOff ==
    /\ pc = "off" /\ proc = "off" /\ exitCode = -1 /\ spans = <<>>
    /\ deferred = FALSE /\ iter = 0
    /\ queue = <<>> /\ exported = {} /\ dropped = {} /\ handled = 0
    /\ expClosed = FALSE /\ shutdownCalls = 0 /\ shutdownReturned = FALSE

ConvOff ==
    /\ cpc = "off" /\ id = <<>> /\ out = <<>>
    /\ span = NoSpan /\ fields = NoFields

(***************************************************************************)
(* SpecConv: one call of convertTraceID or of WithCorrelation              *)
(***************************************************************************)
InitConv ==
    /\ LoopOff
    /\ out = <<>> /\ fields = NoFields
    /\ \/ cpc = "convert" /\ id \in Ids /\ span = NoSpan
       \/ cpc = "correlate" /\ id = <<>> /\ span \in SpanContexts

CallConvertTraceID ==
    /\ cpc = "convert"
    /\ out' = convertTraceID(id)
    /\ cpc' = "converted"
    /\ UNCHANGED <<id, span, fields>>
    /\ UNCHANGED loopVars

CallWithCorrelation ==
    /\ cpc = "correlate"
    /\ fields' = WithCorrelation(span)
    /\ cpc' = "correlated"
    /\ UNCHANGED <<id, out, span>>
    /\ UNCHANGED loopVars

NextConv == CallConvertTraceID \/ CallWithCorrelation

SpecConv == InitConv /\ [][NextConv]_vars

(***************************************************************************)
(* Reference semantics used by the properties                              *)
(***************************************************************************)
IsHexChar(c) == c \in {LowerHex[i] : i \in 1..16} \cup {UpperHex[i] : i \in 1..16}
AllHex(s) == \A i \in 1..Len(s) : IsHexChar(s[i])
Last16(s) == SubSeq(s, Len(s) - 15, Len(s))

\* The unsigned 64-bit value of 16 hexadecimal characters, by position.
HexValue(s) ==
    [k \in 1..4 |->
        digitOf(s[4*k - 3]) * 4096 + digitOf(s[4*k - 2]) * 256
          + digitOf(s[4*k - 1]) * 16 + digitOf(s[4*k])]

DecDigitVal(c) == (CHOOSE i \in 1..10 : DecDigits[i] = c) - 1

RECURSIVE DecValue(_, _, _)
DecValue(s, i, n) ==
    IF i > Len(s) THEN [ok |-> TRUE, val |-> n]
    ELSE LET r == MulAdd(n, 10, DecDigitVal(s[i])) IN
         IF r.carry > 0 THEN [ok |-> FALSE, val |-> n]
         ELSE DecValue(s, i + 1, r.val)

\* s is the canonical base-10 rendering of the 64-bit value v.
IsDecimalOf(s, v) ==
    /\ Len(s) >= 1
    /\ \A i \in 1..Len(s) : \E j \in 1..10 : DecDigits[j] = s[i]
    /\ Len(s) > 1 => s[1] # "0"
    /\ LET r == DecValue(s, 1, Zero64) IN r.ok /\ r.val = v

(***************************************************************************)
(* Properties of the correlation utility (SpecConv)                        *)
(***************************************************************************)

\* C1: for every argument of length >= 16 made of hexadecimal digits only,
\* convertTraceID returns the base-10 rendering of the unsigned 64-bit value
\* of the argument's last 16 characters.
C1_Last16Decimal ==
    (cpc = "converted" /\ Len(id) >= 16 /\ AllHex(id))
        => IsDecimalOf(out, HexValue(Last16(id)))

\* C2: for every argument of length >= 16 whose last 16 characters hold a
\* character that is no hexadecimal digit, convertTraceID returns "".
C2_NonHexInLast16Empty ==
    (cpc = "converted" /\ Len(id) >= 16 /\ ~AllHex(Last16(id)))
        => out = <<>>

\* C3: for every argument shorter than 16 characters, the empty string and
\* valid hexadecimal included, convertTraceID returns "".
C3_ShortEmpty ==
    (cpc = "converted" /\ Len(id) < 16) => out = <<>>

\* A 15-character all-hexadecimal argument was converted.
C3_Witness ==
    cpc = "converted" /\ Len(id) = 15 /\ AllHex(id) /\ id[1] = "f" /\ out = <<>>

\* C9: for the 16-character span ID and the 32-character trace ID that
\* WithCorrelation passes, convertTraceID returns the decimal string of the
\* value of the identifier's last 16 hex characters, so neither the span_id
\* nor the trace_id field is empty.
C9_CorrelationFields ==
    cpc = "correlated" =>
        LET sid == HexEncode(span.SpanID)
            tid == HexEncode(span.TraceID)
        IN  /\ Len(sid) = 16 /\ Len(tid) = 32
            /\ AllHex(sid) /\ AllHex(tid)
            /\ IsDecimalOf(fields.span_id, HexValue(sid))
            /\ IsDecimalOf(fields.trace_id, HexValue(Last16(tid)))
            /\ fields.span_id # <<>> /\ fields.trace_id # <<>>

\* A span whose IDs have the top bit of the low 64 bits set was correlated:
\* span ID ffffffffffffffff renders as 18446744073709551615.
C9_Witness ==
    /\ cpc = "correlated"
    /\ span.SpanID = [i \in 1..SpanIDBytes |-> 255]
    /\ span.TraceID[1] = 90 /\ span.TraceID[TraceIDBytes] = 171
    /\ fields.span_id = <<"1","8","4","4","6","7","4","4","0","7","3","7",
                          "0","9","5","5","1","6","1","5">>
    /\ Len(fields.trace_id) >= 19

(***************************************************************************)
(* The request loop: main, continuouslySendRequests, makeRequest           *)
(***************************************************************************)
SpanName == "ExecuteRequest"
EventName == "successfully finished request operation"
CompletionEvent == [name |-> EventName, attrs |-> {<<"someKey", "someValue">>}]

\* tracer.Start: a recording span (AlwaysSample), not ended, without events.
\* request is the outcome of the request made under the span's context.
NewSpan == [name |-> SpanName, ended |-> FALSE, events |-> <<>>, request |-> "none"]

Init ==
    /\ ConvOff
    /\ pc = "init" /\ proc = "running" /\ exitCode = -1
    /\ deferred = FALSE /\ iter = 0
    /\ spans = <<>> /\ queue = <<>> /\ exported = {} /\ dropped = {}
    /\ handled = 0 /\ expClosed = FALSE
    /\ shutdownCalls = 0 /\ shutdownReturned = FALSE

\* handleErr: log.Fatalf, that is os.Exit(1), when err is set.  The process
\* ends at once; deferred functions do not run.
handleErr(err) ==
    IF err THEN proc' = "exited" /\ exitCode' = 1
           ELSE UNCHANGED <<proc, exitCode>>

\* main, lines 29-30: initTraceProvider / initTracer, then the defer.
\* Either construction error ends the process through handleErr.
MainSetup ==
    /\ pc = "init" /\ proc = "running"
    /\ \E r \in {"ok", "exporterErr", "resourceErr"} :
          /\ handleErr(r # "ok")
          /\ pc' = IF r = "ok" THEN "start" ELSE pc
          /\ deferred' = (r = "ok")
    /\ UNCHANGED <<iter, spans, queue, exported, dropped, handled, expClosed,
                   shutdownCalls, shutdownReturned>>
    /\ UNCHANGED convVars

\* Line 104: tracer.Start, the first statement of the loop body.
StartSpan ==
    /\ pc = "start" /\ proc = "running"
    /\ iter < MaxIter
    /\ iter' = iter + 1
    /\ spans' = Append(spans, NewSpan)
    /\ pc' = "request"
    /\ UNCHANGED <<proc, exitCode, deferred, queue, exported, dropped, handled,
                   expClosed, shutdownCalls, shutdownReturned>>
    /\ UNCHANGED convVars

\* Mutant of MakeRequest: a failed client.Do is logged and the function
\* returns, so the loop goes on.
MakeRequest_LogAndContinue ==
    /\ pc = "request" /\ proc = "running"
    /\ \E r \in {"ok", "newRequestErr", "doErr"} :
          /\ handleErr(r = "newRequestErr")
          /\ spans' = IF r = "newRequestErr" THEN spans
                      ELSE [spans EXCEPT ![Len(spans)].request =
                                IF r = "ok" THEN "ok" ELSE "failed"]
          /\ pc' = IF r = "newRequestErr" THEN pc ELSE "event"
    /\ UNCHANGED <<deferred, iter, queue, exported, dropped, handled,
                   expClosed, shutdownCalls, shutdownReturned>>
    /\ UNCHANGED convVars

\* makeRequest, lines 113-135.  A failing http.NewRequestWithContext goes to
\* handleErr; a failing client.Do panics; otherwise the body is closed and
\* the function returns.
MakeRequest ==
    /\ pc = "request" /\ proc = "running"
    /\ \E r \in {"ok", "newRequestErr", "doErr"} :
          \/ /\ r = "newRequestErr"
             /\ handleErr(TRUE)
             /\ UNCHANGED <<pc, spans>>
          \/ /\ r = "doErr"
             /\ proc' = "panicking"
             /\ spans' = [spans EXCEPT ![Len(spans)].request = "failed"]
             /\ UNCHANGED <<pc, exitCode>>
          \/ /\ r = "ok"
             /\ spans' = [spans EXCEPT ![Len(spans)].request = "ok"]
             /\ pc' = "event"
             /\ UNCHANGED <<proc, exitCode>>
    /\ UNCHANGED <<deferred, iter, queue, exported, dropped, handled,
                   expClosed, shutdownCalls, shutdownReturned>>
    /\ UNCHANGED convVars

\* SuccessfullyFinishedRequestEvent, lines 138-141.  span.AddEvent records
\* nothing on a span that has ended.
AddEvent ==
    /\ pc = "event" /\ proc = "running"
    /\ spans' = [spans EXCEPT ![Len(spans)].events =
                    IF spans[Len(spans)].ended THEN @
                    ELSE Append(@, CompletionEvent)]
    /\ pc' = "end"
    /\ UNCHANGED <<proc, exitCode, deferred, iter, queue, exported, dropped,
                   handled, expClosed, shutdownCalls, shutdownReturned>>
    /\ UNCHANGED convVars

\* Mutant of EndSpan: span.End() is left out of the loop body.
EndSpan_Forgotten ==
    /\ pc = "end" /\ proc = "running"
    /\ pc' = "sleep"
    /\ UNCHANGED <<proc, exitCode, deferred, iter, spans, queue, exported,
                   dropped, handled, expClosed, shutdownCalls,
                   shutdownReturned>>
    /\ UNCHANGED convVars

\* Line 107: span.End().  The span is finalized and the batch span
\* processor's OnEnd puts it on the queue.
EndSpan ==
    /\ pc = "end" /\ proc = "running"
    /\ spans' = [spans EXCEPT ![Len(spans)].ended = TRUE]
    /\ queue' = IF spans[Len(spans)].ended THEN queue
                ELSE Append(queue, Len(spans))
    /\ pc' = "sleep"
    /\ UNCHANGED <<proc, exitCode, deferred, iter, exported, dropped, handled,
                   expClosed, shutdownCalls, shutdownReturned>>
    /\ UNCHANGED convVars

\* Line 108: time.Sleep, then the next iteration.
Sleep ==
    /\ pc = "sleep" /\ proc = "running"
    /\ pc' = "start"
    /\ UNCHANGED <<proc, exitCode, deferred, iter, spans, queue, exported,
                   dropped, handled, expClosed, shutdownCalls,
                   shutdownReturned>>
    /\ UNCHANGED convVars

\* The closure initTracer returns, lines 85-89: traceExp.Shutdown(doneCtx)
\* stops the exporter's client; an error (the deadline included) goes to
\* otel.Handle.  The batch span processor and its queue are not involved.
closeTraces(err) ==
    /\ expClosed' = TRUE
    /\ handled' = IF err THEN handled + 1 ELSE handled

\* The deferred closure of initTraceProvider, lines 47-51, run while the
\* panic unwinds main.
RunDeferredShutdown ==
    /\ proc = "panicking" /\ deferred
    /\ shutdownCalls' = shutdownCalls + 1
    /\ \E err \in BOOLEAN : closeTraces(err)
    /\ shutdownReturned' = TRUE
    /\ proc' = "crashing"
    /\ UNCHANGED <<pc, exitCode, deferred, iter, spans, queue, exported,
                   dropped>>
    /\ UNCHANGED convVars

\* The runtime ends the process once the deferred calls of the panicking
\* goroutine have run.
PanicExit ==
    /\ proc = "crashing"
    /\ proc' = "exited" /\ exitCode' = 2
    /\ UNCHANGED <<pc, deferred, iter, spans, queue, exported, dropped,
                   handled, expClosed, shutdownCalls, shutdownReturned>>
    /\ UNCHANGED convVars

\* Mutant of ExportBatch: a batch whose export failed stays queued and is
\* exported again.
ExportBatch_Retry ==
    /\ proc \in {"running", "panicking", "crashing"}
    /\ queue # <<>>
    /\ \E k \in 1..Len(queue), ok \in BOOLEAN :
          LET batch == {queue[j] : j \in 1..k} IN
          /\ expClosed => ~ok
          /\ queue' = IF ok THEN SubSeq(queue, k + 1, Len(queue)) ELSE queue
          /\ exported' = IF ok THEN exported \cup batch ELSE exported
          /\ dropped' = IF ok THEN dropped ELSE dropped \cup batch
          /\ handled' = IF ok THEN handled ELSE handled + 1
    /\ UNCHANGED <<pc, proc, exitCode, deferred, iter, spans, expClosed,
                   shutdownCalls, shutdownReturned>>
    /\ UNCHANGED convVars

\* The batch span processor's goroutine (lines 75-79): it takes a batch off
\* the queue and gives it to traceExp.ExportSpans.  An error goes to
\* otel.Handle and the batch is discarded; a stopped exporter always errs.
ExportBatch ==
    /\ proc \in {"running", "panicking", "crashing"}
    /\ queue # <<>>
    /\ \E k \in 1..Len(queue), ok \in BOOLEAN :
          LET batch == {queue[j] : j \in 1..k} IN
          /\ expClosed => ~ok
          /\ queue' = SubSeq(queue, k + 1, Len(queue))
          /\ exported' = IF ok THEN exported \cup batch ELSE exported
          /\ dropped' = IF ok THEN dropped ELSE dropped \cup batch
          /\ handled' = IF ok THEN handled ELSE handled + 1
    /\ UNCHANGED <<pc, proc, exitCode, deferred, iter, spans, expClosed,
                   shutdownCalls, shutdownReturned>>
    /\ UNCHANGED convVars

\* The steps of the main goroutine.
MainStep ==
    \/ MainSetup \/ StartSpan \/ MakeRequest \/ AddEvent \/ EndSpan \/ Sleep
    \/ RunDeferredShutdown \/ PanicExit

Next ==
    \/ MainSetup
    \/ StartSpan
    \/ MakeRequest
    \/ AddEvent
    \/ EndSpan
    \/ Sleep
    \/ RunDeferredShutdown
    \/ PanicExit
    \/ ExportBatch

Spec == Init /\ [][Next]_vars

\* The main goroutine is always scheduled: none of its steps waits without
\* bound (the request and the shutdown carry deadlines, the sleep is 1 s).
FairSpec == Spec /\ WF_vars(MainStep)

(***************************************************************************)
(* Properties of the request loop (Spec, FairSpec)                         *)
(***************************************************************************)
Idle == pc \in {"start", "sleep"}
InFlight == pc \in {"request", "event", "end"}
HasCompletionEvent(sp) == \E j \in 1..Len(sp.events) : sp.events[j].name = EventName
OpenSpans == {i \in 1..Len(spans) : ~spans[i].ended}
RequestFailed == \E i \in 1..Len(spans) : spans[i].request = "failed"
\* The iteration of span i is over: a later one began, the loop is back to
\* Idle, or the process no longer runs the loop.
IterationOver(i) == i < Len(spans) \/ Idle \/ proc # "running"

\* C4: each iteration starts exactly one "ExecuteRequest" span and, when its
\* request succeeds, ends that span in the same iteration; once iterations
\* are over, the completion event is on a span if and only if the request
\* made under it succeeded.
C4_OneSpanPerIteration ==
    /\ Len(spans) = iter
    /\ \A i \in 1..Len(spans) :
          /\ spans[i].name = SpanName
          /\ HasCompletionEvent(spans[i]) => spans[i].request = "ok"
          /\ IterationOver(i) =>
                /\ spans[i].request = "ok" => spans[i].ended
                /\ spans[i].request = "ok" => Len(spans[i].events) = 1
                /\ HasCompletionEvent(spans[i]) <=> spans[i].request = "ok"

\* Two iterations succeeded and the request of the third failed.
C4_Witness ==
    /\ proc = "exited" /\ iter = 3
    /\ spans[1].request = "ok" /\ spans[1].ended /\ HasCompletionEvent(spans[1])
    /\ spans[2].request = "ok" /\ spans[2].ended /\ HasCompletionEvent(spans[2])
    /\ spans[3].request = "failed" /\ ~HasCompletionEvent(spans[3])

\* C5: once main has deferred the shutdown closure, the closure has run
\* exactly once by the time the process has ended, on the panic path and on
\* the handleErr path alike.
C5_ShutdownOnEveryExit ==
    (proc = "exited" /\ deferred) => shutdownCalls = 1

\* C6: once the shutdown closure has returned, no span the loop ended is
\* left in the batch span processor's queue: each was transmitted, or
\* reported through the error handler as dropped.
C6_ShutdownFlushesQueue ==
    shutdownReturned =>
        /\ queue = <<>>
        /\ \A i \in 1..Len(spans) :
              spans[i].ended => i \in exported \cup dropped

\* C7: after client.Do has failed, no later iteration starts a span or makes
\* a request, the loop does not return to Idle, nothing is retried, and the
\* process ends.
C7_FailureTerminates ==
    /\ [][RequestFailed =>
            /\ iter' = iter /\ Len(spans') = Len(spans)
            /\ pc' = "request" /\ proc' # "running"
            /\ \A i \in 1..Len(spans) : spans'[i].request = spans[i].request]_vars
    /\ (RequestFailed ~> (proc = "exited" /\ exitCode = 2 /\ pc = "request"))

\* The first request succeeded, the second failed, and the process ended.
C7_Witness ==
    /\ proc = "exited" /\ exitCode = 2 /\ iter = 2
    /\ spans[1].request = "ok" /\ spans[2].request = "failed"

C10_SpanLifecycle ==
    /\ [](/\ Cardinality(OpenSpans) <= 1
          /\ OpenSpans # {} => (InFlight /\ OpenSpans = {Len(spans)})
          /\ Idle => OpenSpans = {}
          /\ \A i \in 1..Len(spans) :
                spans[i].ended => HasCompletionEvent(spans[i]))
    /\ [][\A i \in 1..Len(spans) : spans[i].ended => spans'[i] = spans[i]]_vars

\* The loop sleeps after its second iteration; both spans are closed.
C10_Witness ==
    /\ pc = "sleep" /\ proc = "running" /\ iter = 2
    /\ spans[1].ended /\ spans[2].ended

====
